---- MODULE Spec2Model ----
(***************************************************************************)
(* A model of godef's definition resolver (godef.go): the Node Locator     *)
(* findIdentifier with its background traversal, the two-tier resolver     *)
(* oldGodef, the Package Aggregator parseLocalPackage and the formatter    *)
(* print.                                                                  *)
(*                                                                         *)
(* Identifiers and source texts are sequences of one-character strings.    *)
(* A parsed file is the sequence of its AST nodes in the order ast.Walk    *)
(* visits them (depth first, parent before children); every node carries   *)
(* the byte offsets of its first character (pos) and of the character      *)
(* after its last one (end).                                               *)
(***************************************************************************)
EXTENDS Integers, Sequences, FiniteSets

\* ------------------------------------------------------------------ bounds
\* Longest principal file, in top-level items, of the Node Locator runs.
MaxItems == 2

\* ------------------------------------------------------------- identifiers
ab == <<"a", "b">>
Ty == <<"T", "y">>
pk == <<"p">>
NoName == <<>>

Letters == {"a", "b", "p", "y", "T", "f", "x"}
UpperLetters == {"T"}

\* ast.IsExported: the name starts with an upper-case letter.
IsExported(name) == Len(name) > 0 /\ name[1] \in UpperLetters

\* ---------------------------------------------------------------- the AST
\* kind: the node's Go type; name: an Ident's Name, a SelectorExpr's Sel.Name,
\* an ImportSpec's Path.Value or a BasicLit's Value; x: a SelectorExpr's X as
\* text; selPos: a SelectorExpr's Sel.NamePos; fields: a StructType's fields;
\* arg: the node belongs to a re-parsed expression (file "<arg>").
NodeIn(arg, kind, pos, end, name, x, selPos, fields) ==
    [arg |-> arg, kind |-> kind, pos |-> pos, end |-> end, name |-> name,
     x |-> x, selPos |-> selPos, fields |-> fields]

Node(kind, pos, end, name, selPos, fields) ==
    NodeIn(FALSE, kind, pos, end, name, <<>>, selPos, fields)

Sel(pos, end, x, name, selPos) ==
    NodeIn(FALSE, "SelectorExpr", pos, end, name, x, selPos, <<>>)

NilNode == NodeIn(FALSE, "nil", 0, 0, <<>>, <<>>, 0, <<>>)

\* A struct field as the StructType case reads it: Names, and the Type
\* with a leading star stripped.
Field(named, tkind, name, pos, end) ==
    [named |-> named, tkind |-> tkind, name |-> name, pos |-> pos, end |-> end]

\* The shapes of struct field the source distinguishes:
\*   "named"  ab Ty      "anon"  Ty      "star"  *Ty      "qual"  ab.Ty
FieldShapes == {"named", "anon", "star", "qual"}

FieldLen(sh) ==
    CASE sh = "named" -> Len(ab) + 1 + Len(Ty)
      [] sh = "anon"  -> Len(Ty)
      [] sh = "star"  -> 1 + Len(Ty)
      [] sh = "qual"  -> Len(ab) + 1 + Len(Ty)

\* The Field record of a field laid out at offset b.
FieldAt(sh, b) ==
    CASE sh = "named" -> Field(TRUE, "Ident", Ty, b + Len(ab) + 1, b + Len(ab) + 1 + Len(Ty))
      [] sh = "anon"  -> Field(FALSE, "Ident", Ty, b, b + Len(Ty))
      [] sh = "star"  -> Field(FALSE, "Ident", Ty, b + 1, b + 1 + Len(Ty))
      [] sh = "qual"  -> Field(FALSE, "SelectorExpr", Ty, b + Len(ab) + 1, b + Len(ab) + 1 + Len(Ty))

\* The nodes ast.Walk visits below a field laid out at offset b.
FieldNodes(sh, b) ==
    CASE sh = "named" ->
           << Node("Field", b, b + FieldLen(sh), NoName, 0, <<>>),
              Node("Ident", b, b + Len(ab), ab, 0, <<>>),
              Node("Ident", b + Len(ab) + 1, b + FieldLen(sh), Ty, 0, <<>>) >>
      [] sh = "anon" ->
           << Node("Field", b, b + FieldLen(sh), NoName, 0, <<>>),
              Node("Ident", b, b + Len(Ty), Ty, 0, <<>>) >>
      [] sh = "star" ->
           << Node("Field", b, b + FieldLen(sh), NoName, 0, <<>>),
              Node("StarExpr", b, b + FieldLen(sh), NoName, 0, <<>>),
              Node("Ident", b + 1, b + 1 + Len(Ty), Ty, 0, <<>>) >>
      [] sh = "qual" ->
           << Node("Field", b, b + FieldLen(sh), NoName, 0, <<>>),
              Sel(b, b + FieldLen(sh), ab, Ty, b + Len(ab) + 1),
              Node("Ident", b, b + Len(ab), ab, 0, <<>>),
              Node("Ident", b + Len(ab) + 1, b + FieldLen(sh), Ty, 0, <<>>) >>

\* Offset of field i of a struct whose first field starts at b; fields are
\* separated by one character.
RECURSIVE FieldOffset(_, _, _)
FieldOffset(shs, i, b) ==
    IF i = 1 THEN b ELSE FieldOffset(Tail(shs), i - 1, b + FieldLen(Head(shs)) + 1)

RECURSIVE FieldsLen(_)
FieldsLen(shs) ==
    IF shs = <<>> THEN 0
    ELSE FieldLen(Head(shs)) + (IF Len(shs) > 1 THEN 1 + FieldsLen(Tail(shs)) ELSE 0)

RECURSIVE AllFieldNodes(_, _)
AllFieldNodes(shs, b) ==
    IF shs = <<>> THEN <<>>
    ELSE FieldNodes(Head(shs), b) \o AllFieldNodes(Tail(shs), b + FieldLen(Head(shs)) + 1)

\* The top-level items a file is made of.
\*   ref     ab                 an identifier
\*   decl    var ab             a declaration of name
\*   sel     ab.Ty              a selector expression
\*   sel2    ab.Ty.ab           a selector of a selector
\*   import  import "f"         an import specifier (named: import ab "f")
\*   struct  struct{...}        a struct type
\*   lit     "x"                a literal
KwVar == <<"v", "a", "r", " ">>
KwImport == <<"i", "m", "p", "o", "r", "t", " ">>
KwStruct == <<"s", "t", "r", "u", "c", "t", "{">>
KwPackage == <<"p", "a", "c", "k", "a", "g", "e", " ">>

ItemLen(it) ==
    CASE it.k = "ref"    -> Len(it.name)
      [] it.k = "decl"   -> Len(KwVar) + Len(it.name)
      [] it.k = "sel"    -> Len(ab) + 1 + Len(it.name)
      [] it.k = "sel2"   -> Len(ab) + 1 + Len(Ty) + 1 + Len(it.name)
      [] it.k = "import" -> Len(KwImport) + (IF it.named THEN Len(ab) + 1 ELSE 0) + Len(it.lit)
      [] it.k = "struct" -> Len(KwStruct) + FieldsLen(it.fields) + 1
      [] it.k = "lit"    -> Len(it.lit)

\* The nodes of an item laid out at offset b, in ast.Walk's order.
ItemNodes(it, b) ==
    CASE it.k = "ref" ->
           << Node("Ident", b, b + Len(it.name), it.name, 0, <<>>) >>
      [] it.k = "decl" ->
           << Node("GenDecl", b, b + ItemLen(it), NoName, 0, <<>>),
              Node("Ident", b + Len(KwVar), b + ItemLen(it), it.name, 0, <<>>) >>
      [] it.k = "sel" ->
           << Sel(b, b + ItemLen(it), ab, it.name, b + Len(ab) + 1),
              Node("Ident", b, b + Len(ab), ab, 0, <<>>),
              Node("Ident", b + Len(ab) + 1, b + ItemLen(it), it.name, 0, <<>>) >>
      [] it.k = "sel2" ->
           << Sel(b, b + ItemLen(it), ab \o <<".">> \o Ty, it.name,
                  b + Len(ab) + 1 + Len(Ty) + 1),
              Sel(b, b + Len(ab) + 1 + Len(Ty), ab, Ty, b + Len(ab) + 1),
              Node("Ident", b, b + Len(ab), ab, 0, <<>>),
              Node("Ident", b + Len(ab) + 1, b + Len(ab) + 1 + Len(Ty), Ty, 0, <<>>),
              Node("Ident", b + Len(ab) + 1 + Len(Ty) + 1, b + ItemLen(it), it.name, 0, <<>>) >>
      [] it.k = "import" ->
           << Node("GenDecl", b, b + ItemLen(it), NoName, 0, <<>>),
              Node("ImportSpec", b + Len(KwImport), b + ItemLen(it), it.lit, 0, <<>>) >>
           \o (IF it.named
               THEN << Node("Ident", b + Len(KwImport), b + Len(KwImport) + Len(ab), ab, 0, <<>>) >>
               ELSE <<>>)
           \o << Node("BasicLit", b + ItemLen(it) - Len(it.lit), b + ItemLen(it), it.lit, 0, <<>>) >>
      [] it.k = "struct" ->
           << Node("StructType", b, b + ItemLen(it), NoName, 0,
                   [i \in 1..Len(it.fields) |->
                       FieldAt(it.fields[i], FieldOffset(it.fields, i, b + Len(KwStruct)))]),
              Node("FieldList", b + Len(KwStruct) - 1, b + ItemLen(it), NoName, 0, <<>>) >>
           \o AllFieldNodes(it.fields, b + Len(KwStruct))
      [] it.k = "lit" ->
           << Node("BasicLit", b, b + Len(it.lit), it.lit, 0, <<>>) >>

RECURSIVE ItemsNodes(_, _)
ItemsNodes(items, b) ==
    IF items = <<>> THEN <<>>
    ELSE ItemNodes(Head(items), b) \o ItemsNodes(Tail(items), b + ItemLen(Head(items)) + 1)

RECURSIVE ItemsLen(_)
ItemsLen(items) ==
    IF items = <<>> THEN 0 ELSE ItemLen(Head(items)) + 1 + ItemsLen(Tail(items))

\* Length in bytes of the source  "package p\n" item "\n" item "\n" ...
SrcLen(items) == Len(KwPackage) + Len(pk) + 1 + ItemsLen(items)

\* parser.ParseFile on a well-formed source: the File node, its package
\* name, then the items.
FileNodes(items) ==
    << Node("File", 0, SrcLen(items), NoName, 0, <<>>),
       Node("Ident", Len(KwPackage), Len(KwPackage) + Len(pk), pk, 0, <<>>) >>
    \o ItemsNodes(items, Len(KwPackage) + Len(pk) + 1)


\* ------------------------------------------------------------ the sources
Item(k, name, named, lit, fields) ==
    [k |-> k, name |-> name, named |-> named, lit |-> lit, fields |-> fields]

LitF == <<"\"", "f", "\"">>      \* "f", a path the package locator resolves
LitX == <<"\"", "x", "\"">>      \* "x", a path it does not resolve
LitBad == <<"\"", "f">>          \* an unterminated literal of a broken source

\* The items of the Node Locator runs.
LocItems ==
    { Item("ref", ab, FALSE, <<>>, <<>>),
      Item("sel", Ty, FALSE, <<>>, <<>>),
      Item("sel2", ab, FALSE, <<>>, <<>>),
      Item("import", NoName, FALSE, LitF, <<>>),
      Item("import", NoName, TRUE, LitF, <<>>),
      Item("lit", NoName, FALSE, LitX, <<>>) }
    \cup { Item("struct", NoName, FALSE, <<>>, <<sh>>) : sh \in FieldShapes }
    \cup { Item("struct", NoName, FALSE, <<>>, <<"named", "star">>) }

SeqsUpTo(S, n) == UNION { [1..m -> S] : m \in 0..n }

\* -------------------------------------------------- parsing an expression
IsIdentText(t) == Len(t) > 0 /\ \A i \in 1..Len(t) : t[i] \in Letters

\* The position of the last "." of t, 0 when it has none.
LastDot(t) ==
    IF \E i \in 1..Len(t) : t[i] = "."
    THEN CHOOSE i \in 1..Len(t) : t[i] = "." /\ \A j \in (i + 1)..Len(t) : t[j] # "."
    ELSE 0

\* t is  operand { "." identifier } : an identifier or a selector.
RECURSIVE IsPrimaryText(_)
IsPrimaryText(t) ==
    \/ IsIdentText(t)
    \/ /\ LastDot(t) > 1
       /\ IsIdentText(SubSeq(t, LastDot(t) + 1, Len(t)))
       /\ IsPrimaryText(SubSeq(t, 1, LastDot(t) - 1))

\* t is a call  primary "(" ")".
IsCallText(t) ==
    /\ Len(t) > 2
    /\ t[Len(t) - 1] = "(" /\ t[Len(t)] = ")"
    /\ IsPrimaryText(SubSeq(t, 1, Len(t) - 2))

\* parser.ParseExpr on the text t, in file "<arg>": the node, or a nil node
\* and ok = FALSE on a syntax error.
ParseExprText(t) ==
    IF IsIdentText(t)
    THEN [ok |-> TRUE, node |-> NodeIn(TRUE, "Ident", 0, Len(t), t, <<>>, 0, <<>>)]
    ELSE IF IsPrimaryText(t)
    THEN [ok |-> TRUE,
          node |-> NodeIn(TRUE, "SelectorExpr", 0, Len(t),
                          SubSeq(t, LastDot(t) + 1, Len(t)),
                          SubSeq(t, 1, LastDot(t) - 1), LastDot(t), <<>>)]
    ELSE IF IsCallText(t)
    THEN [ok |-> TRUE, node |-> NodeIn(TRUE, "CallExpr", 0, Len(t), <<>>, <<>>, 0, <<>>)]
    ELSE [ok |-> FALSE, node |-> NilNode]

\* ------------------------------------------------------------------ errors
NoErr == ""
ErrCannotParse == "cannot parse a.go"
ErrParseExpr == "cannot parse expression"
ErrNoIdentInExpr == "no identifier found in expression"
ErrNoIdent == "no identifier found"
ErrNoQuery == "no expression or offset specified"
ErrBadLiteral == "invalid string literal in ast.ImportSpec"
ErrImportPath == "error finding import path"
ErrNoDecl == "no declaration found"
errNoPkgFiles == "no more package files found"

NodeResult(node, e) == [node |-> node, err |-> e]

\* parseExpr: only an identifier or a selector is accepted.
parseExpr(expr) ==
    LET n == ParseExprText(expr) IN
    IF ~n.ok THEN NodeResult(NilNode, ErrParseExpr)
    ELSE IF n.node.kind \in {"Ident", "SelectorExpr"} THEN NodeResult(n.node, NoErr)
    ELSE NodeResult(NilNode, ErrNoIdentInExpr)

\* ----------------------------------------------------- the Node Locator
\* found with the start offset left out of the end: end is the length alone.
foundLengthOnly(startPos, endPos, searchpos) ==
    LET start == startPos
        end == endPos - startPos
    IN  start <= searchpos /\ searchpos <= end

\* found: the span test, inclusive at both ends.
found(startPos, endPos, searchpos) ==
    LET start == startPos
        end == start + (endPos - startPos)
    IN  start <= searchpos /\ searchpos <= end

\* The anonymous fields of a StructType whose type, with a star stripped,
\* is an identifier containing searchpos.
FieldHits(n, searchpos) ==
    { i \in 1..Len(n.fields) :
        /\ ~n.fields[i].named
        /\ n.fields[i].tkind = "Ident"
        /\ found(n.fields[i].pos, n.fields[i].end, searchpos) }

NoMatch == [hit |-> FALSE, msg |-> NodeResult(NilNode, NoErr)]
Match(msg) == [hit |-> TRUE, msg |-> msg]

\* visit testing a selector expression from its own start, n.Pos(), instead
\* of from its selector token.
visitSelectorFromX(n, searchpos) ==
    CASE n.kind = "Ident" ->
           IF found(n.pos, n.end, searchpos) THEN Match(NodeResult(n, NoErr)) ELSE NoMatch
      [] n.kind = "SelectorExpr" ->
           IF found(n.pos, n.end, searchpos) THEN Match(NodeResult(n, NoErr)) ELSE NoMatch
      [] n.kind = "ImportSpec" ->
           IF found(n.pos, n.end, searchpos) THEN Match(NodeResult(n, NoErr)) ELSE NoMatch
      [] n.kind = "StructType" ->
           IF FieldHits(n, searchpos) # {}
           THEN LET i == CHOOSE i \in FieldHits(n, searchpos) :
                            \A j \in FieldHits(n, searchpos) : i <= j
                IN  Match(parseExpr(n.fields[i].name))
           ELSE NoMatch
      [] OTHER -> NoMatch

\* visit without the StructType case: a struct type is passed like any
\* other node and its fields are met as plain identifiers.
visitNoStructCase(n, searchpos) ==
    CASE n.kind = "Ident" ->
           IF found(n.pos, n.end, searchpos) THEN Match(NodeResult(n, NoErr)) ELSE NoMatch
      [] n.kind = "SelectorExpr" ->
           IF found(n.selPos, n.end, searchpos) THEN Match(NodeResult(n, NoErr)) ELSE NoMatch
      [] n.kind = "ImportSpec" ->
           IF found(n.pos, n.end, searchpos) THEN Match(NodeResult(n, NoErr)) ELSE NoMatch
      [] OTHER -> NoMatch

\* visit: what the traversal does at node n. hit: it sends msg and exits.
visit(n, searchpos) ==
    CASE n.kind = "Ident" ->
           IF found(n.pos, n.end, searchpos) THEN Match(NodeResult(n, NoErr)) ELSE NoMatch
      [] n.kind = "SelectorExpr" ->
           IF found(n.selPos, n.end, searchpos) THEN Match(NodeResult(n, NoErr)) ELSE NoMatch
      [] n.kind = "ImportSpec" ->
           IF found(n.pos, n.end, searchpos) THEN Match(NodeResult(n, NoErr)) ELSE NoMatch
      [] n.kind = "StructType" ->
           IF FieldHits(n, searchpos) # {}
           THEN LET i == CHOOSE i \in FieldHits(n, searchpos) :
                            \A j \in FieldHits(n, searchpos) : i <= j
                IN  Match(parseExpr(n.fields[i].name))
           ELSE NoMatch
      [] OTHER -> NoMatch


\* ------------------------------------------------------------------- state
VARIABLES
    app,     \* the Application: expr, Offset and the Type, Members, All, JSON flags
    src,     \* the principal file a.go: whether it parses, and its items
    dir,     \* the directory of a.go, as Readdirnames lists it
    pc,      \* where Run, oldGodef or findIdentifier stands
    f,       \* the parsed principal file: its nodes in ast.Walk's order
    scope,   \* pkgScope: the declarations visible, each with its file
    o,       \* the node the query addresses
    err,     \* the error returned
    obj,     \* the declaring object oldGodef returns
    result,  \* the Object handed to print
    wpc,     \* the traversal goroutine: idle, walk, send, exited (Goexit), done
    wi,      \* the index in f of the node the traversal visits next
    wmsg,    \* the nodeResult the traversal is sending
    nsent,   \* number of nodeResults passed over the channel ec
    ev,      \* the nodeResult findIdentifier received
    pkg,     \* what parseLocalPackage returned
    parsed,  \* the siblings parseLocalPackage gave to the parser, in order
    out,     \* the lines written to standard output
    hist     \* the steps of the resolver taken so far

vars == << app, src, dir, pc, f, scope, o, err, obj, result,
           wpc, wi, wmsg, nsent, ev, pkg, parsed, out, hist >>

App(expr, offset, t, a, all, json) ==
    [expr |-> expr, Offset |-> offset, Type |-> t, Members |-> a, All |-> all, JSON |-> json]

NilObj == [Kind |-> "nil", Name |-> <<>>, File |-> <<>>, Data |-> ""]
Pos(file, line, column) == [Filename |-> file, Line |-> line, Column |-> column]
NoPos == Pos(<<>>, 0, 0)
Object(kind, name, pkgLabel, pos, members, value) ==
    [Kind |-> kind, Name |-> name, Pkg |-> pkgLabel, Position |-> pos,
     Members |-> members, Value |-> value]
NilResult == Object("nil", <<>>, "", NoPos, <<>>, "")
NilPkg == [nil |-> TRUE, Files |-> {}]

\* ------------------------------------------------- findIdentifier, stepwise
\* findIdentifier makes the channel ec, starts the traversal and blocks in
\* the receive  ev := <-ec.
FindIdentifierCall ==
    /\ pc = "findIdentifier"
    /\ pc' = "recv"
    /\ wpc' = "walk"
    /\ wi' = 1
    /\ UNCHANGED << app, src, dir, f, scope, o, err, obj, result, wmsg, nsent, ev, pkg, parsed, out, hist >>

\* The traversal visits the next node: on a hit it goes to send the result.
Visit ==
    /\ wpc = "walk"
    /\ wi <= Len(f)
    /\ LET v == visit(f[wi], app.Offset) IN
         IF v.hit
         THEN /\ wpc' = "send"
              /\ wmsg' = v.msg
              /\ wi' = wi
         ELSE /\ wi' = wi + 1
              /\ UNCHANGED << wpc, wmsg >>
    /\ UNCHANGED << app, src, dir, pc, f, scope, o, err, obj, result, nsent, ev, pkg, parsed, out, hist >>

\* ast.Walk returned: the traversal goes to send nodeResult{nil, nil}.
WalkDone ==
    /\ wpc = "walk"
    /\ wi > Len(f)
    /\ wpc' = "send"
    /\ wmsg' = NodeResult(NilNode, NoErr)
    /\ UNCHANGED << app, src, dir, pc, f, scope, o, err, obj, result, wi, nsent, ev, pkg, parsed, out, hist >>

\* The traversal without runtime.Goexit: after sending a hit, visit returns
\* and the walk goes on.
AfterSendNoExit(walked) == IF walked THEN "done" ELSE "walk"

\* Where the traversal stands after a send: after a hit it has called
\* runtime.Goexit, after the walk the goroutine's function has returned.
AfterSend(walked) == IF walked THEN "done" ELSE "exited"

\* ec is unbuffered: the send completes when findIdentifier receives.
Send ==
    /\ wpc = "send"
    /\ pc = "recv"
    /\ ev' = wmsg
    /\ nsent' = nsent + 1
    /\ wpc' = AfterSend(wi > Len(f))
    /\ pc' = "received"
    /\ UNCHANGED << app, src, dir, f, scope, o, err, obj, result, wi, wmsg, pkg, parsed, out, hist >>

\* findIdentifier without the test for a nil node.
findIdentifierResultNoNilTest(e) ==
    IF e.err # NoErr THEN NodeResult(NilNode, e.err)
    ELSE NodeResult(e.node, NoErr)

\* What findIdentifier returns for the nodeResult received.
findIdentifierResult(e) ==
    IF e.err # NoErr THEN NodeResult(NilNode, e.err)
    ELSE IF e.node = NilNode THEN NodeResult(NilNode, ErrNoIdent)
    ELSE NodeResult(e.node, NoErr)

\* findIdentifier returns to oldGodef, which returns the error if there is one.
FindIdentifierReturn ==
    /\ pc = "received"
    /\ LET r == findIdentifierResult(ev) IN
         /\ o' = r.node
         /\ err' = r.err
         /\ pc' = IF r.err # NoErr THEN "failed" ELSE "resolve"
         /\ hist' = Append(hist, IF r.err # NoErr THEN "locate:err" ELSE "locate:node")
    /\ UNCHANGED << app, src, dir, f, scope, obj, result, wpc, wi, wmsg, nsent, ev, pkg, parsed, out >>

\* The package scope after the principal file is parsed: its declarations.
FileScope(items) ==
    { [name |-> items[i].name, kind |-> "var", file |-> <<"a", ".", "g", "o">>] :
        i \in { j \in 1..Len(items) : items[j].k = "decl" } }

\* findIdentifier on every file of at most MaxItems items at every offset.
InitLocate ==
    /\ src \in { [state |-> "ok", items |-> its] : its \in SeqsUpTo(LocItems, MaxItems) }
    /\ app \in { App(<<>>, off, FALSE, FALSE, FALSE, FALSE) : off \in 0..(SrcLen(src.items) + 1) }
    /\ dir = [ok |-> TRUE, list |-> <<>>]
    /\ pc = "findIdentifier"
    /\ f = FileNodes(src.items)
    /\ scope = FileScope(src.items)
    /\ o = NilNode
    /\ err = NoErr
    /\ obj = NilObj
    /\ result = NilResult
    /\ wpc = "idle"
    /\ wi = 0
    /\ wmsg = NodeResult(NilNode, NoErr)
    /\ nsent = 0
    /\ ev = NodeResult(NilNode, NoErr)
    /\ pkg = NilPkg
    /\ parsed = <<>>
    /\ out = <<>>
    /\ hist = <<>>

NextLocate ==
    \/ FindIdentifierCall
    \/ Visit
    \/ WalkDone
    \/ Send
    \/ FindIdentifierReturn

LocateSpec == InitLocate /\ [][NextLocate]_vars

\* The Go scheduler runs every goroutine that can take a step.
FairLocateSpec == LocateSpec /\ WF_vars(NextLocate)


\* ------------------------------------------------- the Package Aggregator
\* File names, as texts.
AGo == <<"a", ".", "g", "o">>       \* the principal file
BGo == <<"b", ".", "g", "o">>
CGo == <<"c", ".", "g", "o">>
DGo == <<"d", ".", "g", "o">>
EGo == <<"e", ".", "g", "o">>
NTxt == <<"n", ".", "t", "x", "t">>
GoSuffix == <<".", "g", "o">>
xn == <<"x">>

\* strings.HasSuffix
HasSuffix(str, suff) ==
    Len(str) >= Len(suff) /\ SubSeq(str, Len(str) - Len(suff) + 1, Len(str)) = suff

\* The files beside a.go that a directory may hold: the package clause
\* (<<>> when it does not parse), whether the whole file parses, and the
\* declarations a parse enters in the scope (for a broken file, those before
\* its first error).
\*   b.go  package p, declares type Ty       c.go  package p, broken after var x
\*   d.go  package q, declares type Ty       e.go  no package clause
\*   n.txt not a Go file
Disk(name) ==
    CASE name = BGo  -> [pkg |-> pk, parses |-> TRUE, decls |-> {[name |-> Ty, kind |-> "type"]}]
      [] name = CGo  -> [pkg |-> pk, parses |-> FALSE, decls |-> {[name |-> xn, kind |-> "var"]}]
      [] name = DGo  -> [pkg |-> <<"q">>, parses |-> TRUE, decls |-> {[name |-> Ty, kind |-> "type"]}]
      [] name = EGo  -> [pkg |-> <<>>, parses |-> FALSE, decls |-> {}]
      [] name = NTxt -> [pkg |-> <<>>, parses |-> FALSE, decls |-> {}]
      [] OTHER       -> [pkg |-> pk, parses |-> TRUE, decls |-> {}]

\* pkgName: the package name a file's package clause gives, "" if none.
pkgName(file) == Disk(file).pkg

\* The sibling parsed into a scope of its own, not the package's.
ParseIntoOwnScope(sc, file) == sc

\* parser.ParseFile of a sibling into the shared scope: a name already
\* declared keeps its first declaration.
ParseInto(sc, file) ==
    sc \cup { [name |-> d.name, kind |-> d.kind, file |-> file] :
                d \in { e \in Disk(file).decls : \A x \in sc : x.name # e.name } }

\* The loop leaving at the first sibling that fails to parse.
RECURSIVE ScanDirStopOnError(_, _, _, _, _)
ScanDirStopOnError(list, fname, files, sc, done) ==
    IF list = <<>> THEN [Files |-> files, scope |-> sc, parsed |-> done]
    ELSE LET pf == Head(list) IN
         IF \/ ~HasSuffix(pf, GoSuffix)
            \/ pf = fname
            \/ pkgName(pf) # pk
         THEN ScanDirStopOnError(Tail(list), fname, files, sc, done)
         ELSE IF ~Disk(pf).parses
         THEN [Files |-> files, scope |-> ParseInto(sc, pf), parsed |-> Append(done, pf)]
         ELSE ScanDirStopOnError(Tail(list), fname, files \cup {pf},
                                 ParseInto(sc, pf), Append(done, pf))

\* The loop of parseLocalPackage over the listing: the files added and the
\* scope after it.
RECURSIVE ScanDir(_, _, _, _, _)
ScanDir(list, fname, files, sc, done) ==
    IF list = <<>> THEN [Files |-> files, scope |-> sc, parsed |-> done]
    ELSE LET pf == Head(list) IN
         IF \/ ~HasSuffix(pf, GoSuffix)
            \/ pf = fname
            \/ pkgName(pf) # pk
         THEN ScanDir(Tail(list), fname, files, sc, done)
         ELSE ScanDir(Tail(list), fname,
                      IF Disk(pf).parses THEN files \cup {pf} ELSE files,
                      ParseInto(sc, pf), Append(done, pf))

\* parseLocalPackage: the Package, or nil and errNoPkgFiles; and the scope,
\* which the parses have changed either way.
parseLocalPackage(filename, d, sc) ==
    IF ~d.ok THEN [pkg |-> NilPkg, err |-> errNoPkgFiles, scope |-> sc, parsed |-> <<>>]
    ELSE LET r == ScanDir(d.list, filename, {filename}, sc, <<>>) IN
         IF Cardinality(r.Files) = 1
         THEN [pkg |-> NilPkg, err |-> errNoPkgFiles, scope |-> r.scope, parsed |-> r.parsed]
         ELSE [pkg |-> [nil |-> FALSE, Files |-> r.Files], err |-> NoErr,
               scope |-> r.scope, parsed |-> r.parsed]

\* Sequences without repetition, as Readdirnames lists a directory.
Listings(names, n) ==
    { l \in SeqsUpTo(names, n) : \A i, j \in 1..Len(l) : i # j => l[i] # l[j] }

\* ------------------------------------------------------------ the resolver
\* prepare: all members implies members, members implies type.
prepare(a) ==
    LET m == a.Members \/ a.All IN
    [a EXCEPT !.Members = m, !.Type = a.Type \/ m]

\* strconv.Unquote of an interpreted string literal.
Unquote(lit) ==
    IF Len(lit) >= 2 /\ lit[1] = "\"" /\ lit[Len(lit)] = "\""
       /\ \A i \in 2..(Len(lit) - 1) : lit[i] # "\""
    THEN [ok |-> TRUE, str |-> SubSeq(lit, 2, Len(lit) - 1)]
    ELSE [ok |-> FALSE, str |-> <<>>]

\* importPath
importPath(n) ==
    LET p == Unquote(n.name) IN
    IF p.ok THEN [path |-> p.str, err |-> NoErr] ELSE [path |-> <<>>, err |-> ErrBadLiteral]

\* build.Default.Import with build.FindOnly: the directory of a package the
\* go path holds.
GoRootF == "/go/src/f"
BuildImport(path) ==
    IF path = <<"f">> THEN [ok |-> TRUE, Dir |-> GoRootF] ELSE [ok |-> FALSE, Dir |-> ""]

\* The members a selector can name: the variable ab has a field Ty.
FieldsOf(name) == IF name = ab THEN {Ty} ELSE {}

\* types.ExprType: the declaring object of an identifier or a selector under
\* the declarations of scope sc, NilObj if there is none.
Lookup(sc, name) ==
    IF \E d \in sc : d.name = name
    THEN LET d == CHOOSE d \in sc : d.name = name IN
         [Kind |-> d.kind, Name |-> d.name, File |-> d.file, Data |-> ""]
    ELSE NilObj

ExprType(e, sc) ==
    IF e.kind = "Ident" THEN Lookup(sc, e.name)
    ELSE IF e.kind = "SelectorExpr" /\ IsIdentText(e.x)
            /\ Lookup(sc, e.x) # NilObj /\ e.name \in FieldsOf(e.x)
    THEN [Kind |-> "var", Name |-> e.name, File |-> Lookup(sc, e.x).File, Data |-> ""]
    ELSE NilObj

\* ast.Expr: the nodes that are expressions.
IsExpr(n) == n.kind \in {"Ident", "SelectorExpr", "CallExpr", "StarExpr", "StructType", "BasicLit"}

\* Run up to the call of godef: prepare, then the source is read.
Run ==
    /\ pc = "start"
    /\ app' = prepare(app)
    /\ IF src.state = "missing"
       THEN /\ err' = "cannot read a.go"
            /\ pc' = "failed"
       ELSE /\ pc' = "parse"
            /\ UNCHANGED err
    /\ UNCHANGED << src, dir, f, scope, o, obj, result, wpc, wi, wmsg, nsent, ev, pkg, parsed, out, hist >>

\* oldGodef: the principal file is parsed into a fresh package scope.
ParseFile ==
    /\ pc = "parse"
    /\ IF src.state = "broken"
       THEN /\ err' = ErrCannotParse
            /\ pc' = "failed"
            /\ UNCHANGED << f, scope >>
       ELSE /\ f' = FileNodes(src.items)
            /\ scope' = FileScope(src.items)
            /\ pc' = "dispatch"
            /\ UNCHANGED err
    /\ UNCHANGED << app, src, dir, o, obj, result, wpc, wi, wmsg, nsent, ev, pkg, parsed, out, hist >>

\* oldGodef: the expression wins over the offset.
Dispatch ==
    /\ pc = "dispatch"
    /\ IF app.expr # <<>>
       THEN LET r == parseExpr(app.expr) IN
            /\ o' = r.node
            /\ err' = r.err
            /\ pc' = IF r.err # NoErr THEN "failed" ELSE "resolve"
            /\ hist' = Append(hist, IF r.err # NoErr THEN "expr:err" ELSE "expr:node")
       ELSE IF app.Offset >= 0
       THEN /\ pc' = "findIdentifier"
            /\ UNCHANGED << o, err, hist >>
       ELSE /\ err' = ErrNoQuery
            /\ pc' = "failed"
            /\ UNCHANGED << o, hist >>
    /\ UNCHANGED << app, src, dir, f, scope, obj, result, wpc, wi, wmsg, nsent, ev, pkg, parsed, out >>

\* oldGodef's switch on the node: an import specifier is resolved here, an
\* expression goes to the tiers, anything else falls out of the switch.
Resolve ==
    /\ pc = "resolve"
    /\ IF o.kind = "ImportSpec"
       THEN LET p == importPath(o)
                b == BuildImport(p.path)
            IN  IF p.err # NoErr
                THEN /\ err' = p.err /\ pc' = "failed" /\ obj' = NilObj
                     /\ hist' = Append(hist, "import:err")
                ELSE IF ~b.ok
                THEN /\ err' = ErrImportPath /\ pc' = "failed" /\ obj' = NilObj
                     /\ hist' = Append(hist, "import:err")
                ELSE /\ obj' = [Kind |-> "pkg", Name |-> <<>>, File |-> <<>>, Data |-> b.Dir]
                     /\ err' = NoErr
                     /\ pc' = "returned"
                     /\ hist' = Append(hist, "import:dir")
       ELSE IF IsExpr(o)
       THEN /\ pc' = IF app.Type THEN "aggregate" ELSE "local"
            /\ UNCHANGED << obj, err, hist >>
       ELSE /\ obj' = NilObj /\ err' = NoErr /\ pc' = "returned"
            /\ hist' = Append(hist, "switch:none")
    /\ UNCHANGED << app, src, dir, f, scope, o, result, wpc, wi, wmsg, nsent, ev, pkg, parsed, out >>

\* A local tier that goes on to the Package Aggregator after a hit: what
\* the resolver must not do.
LocalTierFallsThrough ==
    /\ pc = "local"
    /\ LET r == ExprType(o, scope) IN
         /\ obj' = IF r # NilObj THEN r ELSE obj
         /\ pc' = "aggregate"
         /\ hist' = Append(hist, IF r # NilObj THEN "local:obj" ELSE "local:nil")
    /\ UNCHANGED << app, src, dir, f, scope, o, err, result, wpc, wi, wmsg, nsent, ev, pkg, parsed, out >>

\* The local tier: the principal file's declarations only.
LocalTier ==
    /\ pc = "local"
    /\ LET r == ExprType(o, scope) IN
         IF r # NilObj
         THEN /\ obj' = r /\ pc' = "returned"
              /\ hist' = Append(hist, "local:obj")
         ELSE /\ pc' = "aggregate"
              /\ hist' = Append(hist, "local:nil")
              /\ UNCHANGED obj
    /\ UNCHANGED << app, src, dir, f, scope, o, err, result, wpc, wi, wmsg, nsent, ev, pkg, parsed, out >>

\* A line of output: what it renders (t), its indentation in tabs, and the
\* name, position and text it shows.
Line(t, indent, name, pos, text) ==
    [t |-> t, indent |-> indent, name |-> name, pos |-> pos, text |-> text]

DiagLine(e) == Line("diag", 0, <<>>, NoPos, e)

\* The Package Aggregator is run; without a package and without the type
\* flag, its error is printed on standard output.
Aggregate ==
    /\ pc = "aggregate"
    /\ LET r == parseLocalPackage(AGo, dir, scope) IN
         /\ pkg' = r.pkg
         /\ parsed' = r.parsed
         /\ scope' = r.scope
         /\ out' = IF r.pkg.nil /\ ~app.Type THEN Append(out, DiagLine(r.err)) ELSE out
         /\ hist' = Append(hist, IF r.pkg.nil THEN "aggregate:nil" ELSE "aggregate:pkg")
    /\ pc' = "package"
    /\ UNCHANGED << app, src, dir, f, o, err, obj, result, wpc, wi, wmsg, nsent, ev >>

\* The package tier: the expression is parsed again if there is one, and
\* the declaring object looked for under the merged scope.
PackageTier ==
    /\ pc = "package"
    /\ LET r == IF app.expr # <<>> THEN parseExpr(app.expr) ELSE NodeResult(o, NoErr)
           t == ExprType(r.node, scope)
       IN  IF r.err # NoErr
           THEN /\ err' = r.err /\ pc' = "failed"
                /\ hist' = Append(hist, "reparse:err")
                /\ UNCHANGED << o, obj >>
           ELSE /\ o' = r.node
                /\ IF t # NilObj
                   THEN /\ obj' = t /\ pc' = "returned"
                        /\ hist' = Append(hist, "package:obj")
                        /\ UNCHANGED err
                   ELSE /\ err' = ErrNoDecl /\ pc' = "failed"
                        /\ hist' = Append(hist, "package:nil")
                        /\ UNCHANGED obj
    /\ UNCHANGED << app, src, dir, f, scope, result, wpc, wi, wmsg, nsent, ev, pkg, parsed, out >>

\* --------------------------------------------------------- the formatter
\* The members of the type Ty: an unexported one, an exported one, and an
\* exported one that an embedded type of package q brings.
TypeMembers ==
    << Object("var", ab, "", Pos(BGo, 2, 1), <<>>, ""),
       Object("var", Ty, "", Pos(BGo, 3, 1), <<>>, ""),
       Object("func", Ty, "q", Pos(DGo, 1, 1), <<>>, "") >>

\* godef: the Object of the declaring object oldGodef returned. An import
\* gives a path-kind Object whose Value is the directory; members are given
\* for a type when member output is requested.
godef(ob, a) ==
    IF ob.Kind = "pkg" THEN Object("path", <<>>, "", NoPos, <<>>, ob.Data)
    ELSE Object(ob.Kind, ob.Name, "", Pos(ob.File, 1, 1),
                IF ob.Kind = "type" /\ a.Members THEN TypeMembers ELSE <<>>, "")

\* Position.Format: what of the position is shown.
PosFormat(pos) ==
    IF pos.Filename # <<>> /\ pos.Line > 0 THEN "file:line:column"
    ELSE IF pos.Line > 0 THEN "line:column"
    ELSE IF pos.Filename # <<>> THEN "file"
    ELSE "-"

\* typeStr: the kind keyword before the name.
typeStr(ob) ==
    IF ob.Kind \in {"var", "func"} THEN ""
    ELSE IF ob.Kind = "import" THEN "import ("
    ELSE ob.Kind

\* The member loop skipping only a member that has both a package label
\* and an unexported name.
RECURSIVE MemberLinesBothTests(_, _, _)
MemberLinesBothTests(members, i, a) ==
    IF i > Len(members) THEN <<>>
    ELSE LET m == members[i] IN
         (IF ~a.All /\ (m.Pkg # "" /\ ~IsExported(m.Name))
          THEN <<>>
          ELSE << Line("type", 1, m.Name, m.Position, typeStr(m)),
                  Line("pos", 2, m.Name, m.Position, PosFormat(m.Position)) >>)
         \o MemberLinesBothTests(members, i + 1, a)

\* The lines print writes for the members from the i-th on.
RECURSIVE MemberLines(_, _, _)
MemberLines(members, i, a) ==
    IF i > Len(members) THEN <<>>
    ELSE LET m == members[i] IN
         (IF ~a.All /\ (m.Pkg # "" \/ ~IsExported(m.Name))
          THEN <<>>
          ELSE << Line("type", 1, m.Name, m.Position, typeStr(m)),
                  Line("pos", 2, m.Name, m.Position, PosFormat(m.Position)) >>)
         \o MemberLines(members, i + 1, a)

\* print looking at the structured flag before the path kind.
printRecordFirst(a, r) ==
    IF a.JSON THEN << Line("json", 0, <<>>, r.Position, "{filename,line,column}") >>
    ELSE IF r.Kind = "path" THEN << Line("path", 0, <<>>, NoPos, r.Value) >>
    ELSE << Line("pos", 0, <<>>, r.Position, PosFormat(r.Position)) >>
         \o (IF r.Kind = "bad" \/ ~a.Type THEN <<>>
             ELSE << Line("type", 0, r.Name, r.Position, typeStr(r)) >>
                  \o (IF a.Members THEN MemberLines(r.Members, 1, a) ELSE <<>>))

\* print: the lines written for the Object r under the flags of a.
print(a, r) ==
    IF r.Kind = "path" THEN << Line("path", 0, <<>>, NoPos, r.Value) >>
    ELSE IF a.JSON THEN << Line("json", 0, <<>>, r.Position, "{filename,line,column}") >>
    ELSE << Line("pos", 0, <<>>, r.Position, PosFormat(r.Position)) >>
         \o (IF r.Kind = "bad" \/ ~a.Type THEN <<>>
             ELSE << Line("type", 0, r.Name, r.Position, typeStr(r)) >>
                  \o (IF a.Members THEN MemberLines(r.Members, 1, a) ELSE <<>>))

\* godef returns the Object of what oldGodef found.
Convert ==
    /\ pc = "returned"
    /\ IF obj = NilObj
       THEN /\ pc' = "panic"
            /\ UNCHANGED result
       ELSE /\ result' = godef(obj, app)
            /\ pc' = "print"
    /\ UNCHANGED << app, src, dir, f, scope, o, err, obj, wpc, wi, wmsg, nsent, ev, pkg, parsed, out, hist >>

\* Run prints the Object on standard output.
RunPrint ==
    /\ pc = "print"
    /\ out' = out \o print(app, result)
    /\ pc' = "done"
    /\ UNCHANGED << app, src, dir, f, scope, o, err, obj, result, wpc, wi, wmsg, nsent, ev, pkg, parsed, hist >>

\* --------------------------------------------------------- specifications
\* Longest principal file, in items, and longest directory listing of the
\* whole runs; longest listing of the Package Aggregator runs; most members
\* of an Object of the formatter runs.
MaxRunItems == 1
MaxRunDirEntries == 1
MaxDirEntries == 2
MaxMembers == 2

\* The items of the whole runs.
RunItems ==
    { Item("ref", Ty, FALSE, <<>>, <<>>),
      Item("decl", ab, FALSE, <<>>, <<>>),
      Item("sel", Ty, FALSE, <<>>, <<>>),
      Item("import", NoName, FALSE, LitF, <<>>),
      Item("import", NoName, FALSE, LitX, <<>>),
      Item("import", NoName, FALSE, LitBad, <<>>),
      Item("struct", NoName, FALSE, <<>>, <<"anon">>) }

\* The expressions given on the command line: none, Ty, ab.Ty, the call
\* ab() and the broken  ab.
RunExprs ==
    { <<>>, Ty, ab \o <<".">> \o Ty, ab \o <<"(", ")">>, ab \o <<".">> }

RunDirNames == {AGo, BGo, CGo, DGo}
DirNames == {AGo, BGo, CGo, DGo, EGo, NTxt}

Sources(items, n) ==
    { [state |-> "ok", items |-> its] : its \in SeqsUpTo(items, n) }
    \cup { [state |-> st, items |-> <<>>] : st \in {"missing", "broken"} }

Dirs(names, n) ==
    { [ok |-> TRUE, list |-> l] : l \in Listings(names, n) }
    \cup { [ok |-> FALSE, list |-> <<>>] }

InitRest ==
    /\ f = <<>>
    /\ scope = {}
    /\ o = NilNode
    /\ err = NoErr
    /\ obj = NilObj
    /\ result = NilResult
    /\ wpc = "idle"
    /\ wi = 0
    /\ wmsg = NodeResult(NilNode, NoErr)
    /\ nsent = 0
    /\ ev = NodeResult(NilNode, NoErr)
    /\ pkg = NilPkg
    /\ parsed = <<>>
    /\ out = <<>>
    /\ hist = <<>>

\* A whole run of godef on a.go: any flags, an expression or an offset
\* (or both, or neither), any source and any directory.
Init ==
    /\ src \in Sources(RunItems, MaxRunItems)
    /\ app \in { App(e, off, t, a, all, j) :
                   e \in RunExprs, off \in -1..(SrcLen(src.items) + 1),
                   t \in BOOLEAN, a \in BOOLEAN, all \in BOOLEAN, j \in BOOLEAN }
    /\ app.expr # <<>> => app.Offset \in {-1, 0}
    /\ dir \in Dirs(RunDirNames, MaxRunDirEntries)
    /\ pc = "start"
    /\ InitRest

Next ==
    \/ Run
    \/ ParseFile
    \/ Dispatch
    \/ FindIdentifierCall
    \/ Visit
    \/ WalkDone
    \/ Send
    \/ FindIdentifierReturn
    \/ Resolve
    \/ LocalTier
    \/ Aggregate
    \/ PackageTier
    \/ Convert
    \/ RunPrint

Spec == Init /\ [][Next]_vars

\* parseLocalPackage on every directory of at most MaxDirEntries entries,
\* for a principal file that declares ab or nothing.
InitAggregate ==
    /\ src \in { [state |-> "ok", items |-> its] :
                   its \in { <<>>, << Item("decl", ab, FALSE, <<>>, <<>>) >> } }
    /\ app \in { App(<<>>, 0, t, FALSE, FALSE, FALSE) : t \in BOOLEAN }
    /\ dir \in Dirs(DirNames, MaxDirEntries)
    /\ pc = "aggregate"
    /\ f = FileNodes(src.items)
    /\ scope = FileScope(src.items)
    /\ o = f[2]
    /\ err = NoErr
    /\ obj = NilObj
    /\ result = NilResult
    /\ wpc = "idle"
    /\ wi = 0
    /\ wmsg = NodeResult(NilNode, NoErr)
    /\ nsent = 0
    /\ ev = NodeResult(NilNode, NoErr)
    /\ pkg = NilPkg
    /\ parsed = <<>>
    /\ out = <<>>
    /\ hist = <<>>

AggregateSpec == InitAggregate /\ [][Aggregate]_vars

\* print on every Object of at most MaxMembers members under every
\* setting of the flags that prepare leaves.
MemberObjects ==
    { Object(k, n, p, Pos(BGo, 2, 1), <<>>, "") :
        k \in {"var"}, n \in {ab, Ty}, p \in {"", "q"} }

Objects ==
    { Object(k, Ty, "", ps, ms, v) :
        k \in {"path", "bad", "type", "var"},
        ps \in {NoPos, Pos(BGo, 2, 1), Pos(BGo, 0, 1), Pos(<<>>, 2, 1)},
        ms \in SeqsUpTo(MemberObjects, MaxMembers),
        v \in {GoRootF} }

InitPrint ==
    /\ src = [state |-> "ok", items |-> <<>>]
    /\ app \in { prepare(App(<<>>, 0, t, a, all, j)) :
                   t \in BOOLEAN, a \in BOOLEAN, all \in BOOLEAN, j \in BOOLEAN }
    /\ dir = [ok |-> TRUE, list |-> <<>>]
    /\ pc = "print"
    /\ result \in Objects
    /\ f = <<>>
    /\ scope = {}
    /\ o = NilNode
    /\ err = NoErr
    /\ obj = NilObj
    /\ wpc = "idle"
    /\ wi = 0
    /\ wmsg = NodeResult(NilNode, NoErr)
    /\ nsent = 0
    /\ ev = NodeResult(NilNode, NoErr)
    /\ pkg = NilPkg
    /\ parsed = <<>>
    /\ out = <<>>
    /\ hist = <<>>

PrintSpec == InitPrint /\ [][RunPrint]_vars

\* ------------------------------------------------ claims on the Node Locator
\* findIdentifier has returned.
Located == pc \in {"resolve", "failed"}

Idents == { i \in 1..Len(f) : f[i].kind = "Ident" }
Selectors == { i \in 1..Len(f) : f[i].kind = "SelectorExpr" }

\* The identifier f[i] is the selector token of a selector expression.
IsSelOf(i) == \E s \in Selectors : f[s].selPos = f[i].pos
\* The identifier f[i] is the name of an import specifier.
IsImportName(i) ==
    \E m \in 1..Len(f) : f[m].kind = "ImportSpec" /\ f[m].pos <= f[i].pos /\ f[i].end <= f[m].end
\* The identifier f[i] is the type, T or *T, of an anonymous struct field.
IsEmbeddedType(i) ==
    \E t \in 1..Len(f) :
        /\ f[t].kind = "StructType"
        /\ \E k \in 1..Len(f[t].fields) :
              /\ ~f[t].fields[k].named
              /\ f[t].fields[k].tkind = "Ident"
              /\ f[t].fields[k].pos = f[i].pos

\* The offset lies in the span, both ends included, of some identifier or
\* import specifier: the spans the Node Locator tests.
InSomeSpan(off) ==
    \E i \in 1..Len(f) :
        /\ f[i].kind \in {"Ident", "ImportSpec"}
        /\ f[i].pos <= off /\ off <= f[i].end

\* C1 as stated: an offset strictly inside an identifier token yields that
\* identifier node, and an offset outside every span yields "no identifier
\* found".
C1_IdentifierItself ==
    Located =>
        /\ \A i \in Idents :
              (f[i].pos < app.Offset /\ app.Offset < f[i].end) => (o = f[i] /\ err = NoErr)
        /\ ~InSomeSpan(app.Offset) => (o = NilNode /\ err = ErrNoIdent)

\* C1 as amended: an offset strictly inside an identifier token that is not
\* the selector of a selector expression, not the name of an import
\* specifier and not the type of an anonymous struct field yields that
\* identifier node; an offset outside every span yields "no identifier found".
C1_PlainIdentifierItself ==
    Located =>
        /\ \A i \in Idents :
              ( /\ f[i].pos < app.Offset /\ app.Offset < f[i].end
                /\ ~IsSelOf(i) /\ ~IsImportName(i) /\ ~IsEmbeddedType(i) )
              => (o = f[i] /\ err = NoErr)
        /\ ~InSomeSpan(app.Offset) => (o = NilNode /\ err = ErrNoIdent)

C1_Witness ==
    /\ Located
    /\ \E i \in Idents :
          /\ f[i].pos < app.Offset /\ app.Offset < f[i].end
          /\ ~IsSelOf(i) /\ ~IsImportName(i) /\ ~IsEmbeddedType(i)
          /\ o = f[i]
          /\ i > 2

\* C2: an offset within the selector token of x.y, both ends included, yields
\* the selector expression, never the identifier y; an offset in x that is
\* not in y does not yield that selector expression.
C2_SelectorNode ==
    Located =>
        \A s \in Selectors :
            /\ (f[s].selPos <= app.Offset /\ app.Offset <= f[s].end)
                  => (o = f[s] /\ err = NoErr /\ o.kind # "Ident")
            /\ (f[s].pos <= app.Offset /\ app.Offset < f[s].selPos) => o # f[s]

C2_Witness ==
    /\ Located
    /\ \E s \in Selectors :
          /\ f[s].selPos < app.Offset /\ app.Offset <= f[s].end
          /\ o = f[s]
          /\ f[s].x # ab

\* C9: the traversal passes exactly one message, does nothing after it, is
\* never left in a second send, and findIdentifier, once called, receives
\* that message and returns.
C9_OneMessage ==
    /\ [](nsent <= 1)
    /\ [](wpc = "send" => nsent = 0)
    /\ [](pc \in {"received", "resolve", "failed"} => (nsent = 1 /\ ev = wmsg))
    /\ [][nsent >= 1 => (wi' = wi /\ wmsg' = wmsg /\ nsent' = nsent /\ wpc' = wpc)]_vars
    /\ [](pc = "recv" => <>(Located /\ wpc \in {"exited", "done"}))

C9_Witness ==
    /\ Located
    /\ nsent = 1
    /\ wpc = "exited"
    /\ wi < Len(f)

\* The span test of a node as section 4.2 words it.
SpanHit(n, off) ==
    \/ n.kind = "Ident" /\ n.pos <= off /\ off <= n.end
    \/ n.kind = "SelectorExpr" /\ n.selPos <= off /\ off <= n.end
    \/ n.kind = "ImportSpec" /\ n.pos <= off /\ off <= n.end
    \/ /\ n.kind = "StructType"
       /\ \E k \in 1..Len(n.fields) :
             /\ ~n.fields[k].named /\ n.fields[k].tkind = "Ident"
             /\ n.fields[k].pos <= off /\ off <= n.fields[k].end

Hits == { i \in 1..Len(f) : SpanHit(f[i], app.Offset) }
FirstHit == CHOOSE i \in Hits : \A j \in Hits : i <= j

\* C10: the node returned is the one the first node in traversal order whose
\* span test holds gives (itself, or for a struct type the re-parsed field
\* type); an offset on the type identifier of an anonymous field yields the
\* re-parsed expression, never the field's identifier node.
C10_FirstInPreorder ==
    Located =>
        /\ Hits = {} => (o = NilNode /\ err = ErrNoIdent)
        /\ Hits # {} =>
              /\ err = NoErr
              /\ wi = FirstHit
              /\ f[FirstHit].kind # "StructType" => o = f[FirstHit]
              /\ f[FirstHit].kind = "StructType" => (o.arg /\ o.kind = "Ident")
        /\ \A i \in Idents :
              (IsEmbeddedType(i) /\ f[i].pos <= app.Offset /\ app.Offset <= f[i].end)
              => (o # f[i] /\ o.arg /\ o.kind = "Ident" /\ o.name = f[i].name)

C10_Witness ==
    /\ Located
    /\ \E i \in Idents :
          /\ IsEmbeddedType(i) /\ f[i].pos <= app.Offset /\ app.Offset <= f[i].end
          /\ o.arg /\ o.name = f[i].name
          /\ \E t \in 1..Len(f) : f[t].kind = "StarExpr" /\ f[t].pos + 1 = f[i].pos

\* ---------------------------------------------------- claims on the resolver
\* The query addresses an import specifier whose path literal is well
\* formed and resolved by the package locator.
ImportQuery ==
    /\ o.kind = "ImportSpec"
    /\ Unquote(o.name).ok
    /\ BuildImport(Unquote(o.name).str).ok

TierSteps == {"local:obj", "local:nil", "aggregate:nil", "aggregate:pkg",
              "reparse:err", "package:obj", "package:nil"}

\* C3: an import specifier with a well-formed, resolvable path gives a
\* path-kind Object whose Value is the package directory, the output is that
\* directory alone, under every setting of the flags, and neither tier nor
\* the Package Aggregator is run.
C3_ImportPath ==
    ImportQuery =>
        /\ pc \in {"resolve", "returned", "print", "done"}
        /\ pc \in {"returned", "print", "done"} =>
              (obj.Kind = "pkg" /\ obj.Data = BuildImport(Unquote(o.name).str).Dir /\ err = NoErr)
        /\ pc \in {"print", "done"} =>
              (result.Kind = "path" /\ result.Value = BuildImport(Unquote(o.name).str).Dir)
        /\ pc = "done" =>
              out = << Line("path", 0, <<>>, NoPos, BuildImport(Unquote(o.name).str).Dir) >>
        /\ pc # "done" => out = <<>>
        /\ \A i \in 1..Len(hist) : hist[i] \notin TierSteps
        /\ pkg.nil /\ parsed = <<>>

C3_Witness ==
    /\ ImportQuery
    /\ pc = "done"
    /\ app.JSON /\ app.All /\ app.Type /\ app.Members
    /\ out = << Line("path", 0, <<>>, NoPos, GoRootF) >>

\* Ty is declared in the sibling b.go, which is listed in the directory,
\* declares the principal's package name and parses, and nowhere in a.go;
\* type output is not requested; the query addresses the identifier Ty.
OnlyInSibling ==
    /\ src.state = "ok"
    /\ \A i \in 1..Len(src.items) : ~(src.items[i].k = "decl" /\ src.items[i].name = Ty)
    /\ dir.ok
    /\ \E i \in 1..Len(dir.list) : dir.list[i] = BGo
    /\ Disk(BGo).pkg = pk /\ Disk(BGo).parses
    /\ \E d \in Disk(BGo).decls : d.name = Ty
    /\ ~prepare(app).Type
    /\ o.kind = "Ident" /\ o.name = Ty

LastSteps(n) == IF Len(hist) >= n THEN SubSeq(hist, Len(hist) - n + 1, Len(hist)) ELSE <<>>

\* C4: for a symbol declared only in a sibling of the same package, without
\* type output, the local tier yields nothing, then the Package Aggregator
\* is run, then the package tier yields the sibling's declaration; the run
\* does not end in "no declaration found".
C4_LocalMissThenPackageHit ==
    OnlyInSibling =>
        /\ pc \in {"resolve", "local", "aggregate", "package", "returned", "print", "done"}
        /\ pc = "aggregate" => LastSteps(1) = <<"local:nil">>
        /\ pc = "package" =>
              (LastSteps(2) = <<"local:nil", "aggregate:pkg">> /\ ~pkg.nil /\ BGo \in pkg.Files)
        /\ pc \in {"returned", "print", "done"} =>
              /\ LastSteps(3) = <<"local:nil", "aggregate:pkg", "package:obj">>
              /\ obj = [Kind |-> "type", Name |-> Ty, File |-> BGo, Data |-> ""]
              /\ err = NoErr
        /\ pc # "done" => ENABLED Next

C4_Witness ==
    /\ OnlyInSibling
    /\ pc = "done"
    /\ obj.File = BGo
    /\ hist = <<"locate:node", "local:nil", "aggregate:pkg", "package:obj">>

\* The siblings parseLocalPackage is to add: the .go files listed, other
\* than the principal, that declare its package name and parse.
ValidSiblings ==
    IF dir.ok
    THEN { dir.list[i] : i \in { j \in 1..Len(dir.list) :
              /\ HasSuffix(dir.list[j], GoSuffix)
              /\ dir.list[j] # AGo
              /\ Disk(dir.list[j]).pkg = pk
              /\ Disk(dir.list[j]).parses } }
    ELSE {}

\* C5: parseLocalPackage never parses the principal file again; a sibling
\* that fails to parse does not stop the scan: every valid sibling is in
\* the Package's files and its declarations are in the shared scope, wherever
\* the broken sibling is listed; the result is NoMoreFiles exactly when
\* no sibling was added.
C5_ResilientAggregation ==
    pc = "package" =>
        /\ \A i \in 1..Len(parsed) : parsed[i] # AGo
        /\ \A sib \in ValidSiblings :
              /\ ~pkg.nil
              /\ sib \in pkg.Files
              /\ \A d \in Disk(sib).decls :
                    [name |-> d.name, kind |-> d.kind, file |-> sib] \in scope
        /\ ~pkg.nil => pkg.Files = ValidSiblings \cup {AGo}
        /\ pkg.nil <=> ValidSiblings = {}
        /\ pkg.nil <=> LastSteps(1) = <<"aggregate:nil">>

C5_Witness ==
    /\ pc = "package"
    /\ dir.list = <<CGo, BGo>>
    /\ parsed = <<CGo, BGo>>
    /\ pkg.Files = {AGo, BGo}

\* C6: oldGodef ends with a declaring object and no error, or with an error
\* and no object, never with neither; and until it has ended, or Run has
\* printed, there is a step to take.
C6_ObjectOrError ==
    /\ pc = "returned" => (obj # NilObj /\ err = NoErr)
    /\ pc = "failed" => (obj = NilObj /\ err # NoErr)
    /\ pc \in {"print", "done"} => (obj # NilObj /\ err = NoErr /\ result # NilResult)
    /\ pc # "panic"
    /\ pc \notin {"failed", "done"} => ENABLED Next

C6_Witness ==
    /\ pc = "failed"
    /\ err = ErrNoDecl
    /\ obj = NilObj
    /\ app.expr # <<>>
    /\ ~pkg.nil

\* C7: NoMoreFiles is not surfaced: it is not the error returned, and the
\* output holds only the Position line and the type and member lines (or
\* the record, or the path).
C7_NoMoreFilesHidden ==
    /\ err # errNoPkgFiles
    /\ \A i \in 1..Len(out) : out[i].t \in {"pos", "type", "json", "path"}

\* ---------------------------------------------------- claims on the formatter
\* The members print is to show: all of them under the all-members flag,
\* else those with no package label and an exported name.
Shown == { i \in 1..Len(result.Members) :
             \/ app.All
             \/ (result.Members[i].Pkg = "" /\ IsExported(result.Members[i].Name)) }

Rank(i) == Cardinality({ j \in Shown : j <= i })

\* C8: with members requested and no structured mode, for an Object that
\* is neither a path nor bad, the output is the Position line, the type line
\* and, for the members to show and only those, in their order, a type line
\* and a Position line each; in structured mode the output is the one
\* record line, whatever the other flags.
C8_MemberLines ==
    (pc = "done" /\ result.Kind # "path") =>
        /\ (app.Members /\ ~app.JSON /\ result.Kind # "bad") =>
              /\ Len(out) = 2 + 2 * Cardinality(Shown)
              /\ out[1] = Line("pos", 0, <<>>, result.Position, PosFormat(result.Position))
              /\ out[2].t = "type" /\ out[2].indent = 0 /\ out[2].name = result.Name
              /\ \A i \in Shown :
                    /\ out[2 * Rank(i) + 1].t = "type"
                    /\ out[2 * Rank(i) + 1].indent = 1
                    /\ out[2 * Rank(i) + 1].name = result.Members[i].Name
                    /\ out[2 * Rank(i) + 1].pos = result.Members[i].Position
                    /\ out[2 * Rank(i) + 2].t = "pos"
                    /\ out[2 * Rank(i) + 2].indent = 2
                    /\ out[2 * Rank(i) + 2].pos = result.Members[i].Position
        /\ app.JSON =>
              (Len(out) = 1 /\ out[1].t = "json" /\ out[1].pos = result.Position)

C8_Witness ==
    /\ pc = "done"
    /\ result.Kind = "type"
    /\ app.Members /\ ~app.All /\ ~app.JSON
    /\ Len(result.Members) = 2
    /\ Shown = {2}
    /\ Len(out) = 4

\* ------------------------------------------- claims on the two-tier policy
\* The steps of the tiers taken so far, in order.
TierHist == SelectSeq(hist, LAMBDA e : e \in TierSteps)

Aggregated == \E i \in 1..Len(TierHist) : TierHist[i] \in {"aggregate:nil", "aggregate:pkg"}

LocalMiss == \E i \in 1..Len(TierHist) : TierHist[i] = "local:nil"

LocalHit == \E i \in 1..Len(TierHist) : TierHist[i] = "local:obj"

\* Type information was requested: the type flag, or one of the flags that
\* make prepare set it.
TypeRequested == app.Type \/ app.Members \/ app.All

\* oldGodef has returned, with or without error.
Ended == pc \in {"returned", "failed", "print", "panic", "done"}

\* The query gave an identifier or a selector expression to resolve.
ExprQuery ==
    /\ \E i \in 1..Len(hist) : hist[i] \in {"locate:node", "expr:node"}
    /\ o.kind \in {"Ident", "SelectorExpr"}
    /\ pc \notin {"resolve", "findIdentifier", "recv", "received"}

\* C11: for an identifier or selector query, the Package Aggregator is run
\* (once) if and only if type information was requested or the local tier
\* yielded no declaring object; and when the local tier yields a declaring
\* object, that object is returned at once without error: no aggregation,
\* no second parse of the expression, no second inference follows, and the
\* object is never replaced nor the run turned into a failure.
C11_AggregatorIffTypeOrLocalMiss ==
    ExprQuery =>
        /\ Aggregated => (TypeRequested \/ LocalMiss)
        /\ ((TypeRequested \/ LocalMiss) /\ pc # "aggregate") => Aggregated
        /\ Cardinality({i \in 1..Len(TierHist) :
                           TierHist[i] \in {"aggregate:nil", "aggregate:pkg"}}) <= 1
        /\ pc = "local" => (~TypeRequested /\ TierHist = <<>>)
        /\ pc = "aggregate" => (TypeRequested \/ LastSteps(1) = <<"local:nil">>)
        /\ Ended => TierHist # <<>>
        /\ LocalHit =>
              /\ TierHist = <<"local:obj">>
              /\ pc \in {"returned", "print", "done"}
              /\ obj # NilObj
              /\ obj = ExprType(o, FileScope(src.items))
              /\ err = NoErr
              /\ pkg.nil /\ parsed = <<>>
              /\ scope = FileScope(src.items)

\* The local tier finds the declaration in the principal file while a
\* sibling of the package is listed in the directory, and the run ends with
\* that declaration printed and the sibling never parsed.
C11_Witness ==
    /\ ExprQuery
    /\ pc = "done"
    /\ ~TypeRequested
    /\ TierHist = <<"local:obj">>
    /\ dir.ok /\ \E i \in 1..Len(dir.list) : dir.list[i] = BGo
    /\ obj.File = AGo
    /\ pkg.nil
    /\ Len(out) = 1

====
